---- MODULE Spec2Model ----
(***************************************************************************)
(* Cart toggle, checkout and soft-delete of drf_ecommerce.                 *)
(*                                                                         *)
(*   src/apps/shop/views.py     CartView.post, CheckoutView.post           *)
(*   src/apps/common/models.py  IsDeletedQuerySet, IsDeletedManager,       *)
(*                              IsDeletedModel                             *)
(*                                                                         *)
(* Three specifications are given over the same database operators:        *)
(*   Spec     two concurrent requests; every handler is cut at its         *)
(*            database statements (the views open no transaction, so each  *)
(*            statement commits on its own);                               *)
(*   SpecSeq  one request at a time, each handler run to completion;       *)
(*   SpecSD   the soft-delete manager / queryset / model operations.       *)
(***************************************************************************)
EXTENDS Integers, FiniteSets, Sequences, TLC

\* ------------------------------------------------------------------ bounds
MaxCalls == 4      \* requests served one at a time (SpecSeq)
MaxRequests == 3   \* requests accepted while two run concurrently (Spec)
MaxQty == 2        \* largest quantity a request carries
MaxRows == 3       \* soft-deletable rows ever inserted
MaxTime == 2       \* readings of timezone.now()

\* ------------------------------------------------------------- environment
Procs == {"r1", "r2"}              \* two requests in flight
Users == {"u1", "u2"}              \* request.user
Products == {"p1", "p2"}           \* slugs of the Product rows
UnknownSlug == "p9"                \* a slug no Product has
ShippingIds == {"s1"}              \* ids of the ShippingAddress rows
UnknownShippingId == "s9"          \* an id no ShippingAddress has
NoShippingId == "none"             \* data.get("shipping_id") is None

\* order_id=None
NULL == 0

\* A ShippingAddress row: seven fields, all different, different per row.
ShippingAddress(sid) ==
    [full_name |-> "name-" \o sid, email |-> "mail-" \o sid,
     phone |-> "tel-" \o sid, address |-> "street-" \o sid,
     city |-> "city-" \o sid, country |-> "land-" \o sid,
     zipcode |-> "zip-" \o sid]

VARIABLES
    orderitems,    \* table OrderItem: [id, user, product, quantity, order]
    orders,        \* table Order: [id, user] and the seven shipping fields
    nextItemId,    \* primary key the next OrderItem gets
    nextOrderId,   \* primary key the next Order gets
    req,           \* per request in flight: where its handler stands, its locals
    resp,          \* the last Response returned, with the request it answers
    started,       \* requests accepted so far
    rows,          \* table of a soft-deletable model: [id, is_deleted, deleted_at]
    nextRowId,     \* primary key the next soft-deletable row gets
    now,           \* timezone.now()
    lastOp         \* the last soft-delete operation: [op, ids]

vars == <<orderitems, orders, nextItemId, nextOrderId, req, resp, started,
          rows, nextRowId, now, lastOp>>
sdVars == <<rows, nextRowId, now, lastOp>>

\* ------------------------------------------------------- database operators

\* the filter with user=user left out
CartItems_anyUser(items, u) == {r \in items : r.order = NULL}

\* OrderItem.objects.filter(user=user, order=None)
CartItems(items, u) == {r \in items : r.user = u /\ r.order = NULL}

\* the lookup of update_or_create(user=user, order_id=None, product=product)
Lookup(items, u, p) ==
    {r \in items : r.user = u /\ r.product = p /\ r.order = NULL}

\* update_or_create, no row found: INSERT with the lookup values and defaults
InsertItem(items, id, u, p, q) ==
    items \cup {[id |-> id, user |-> u, product |-> p, quantity |-> q,
                 order |-> NULL]}

\* the quantity added to the stored one instead of replacing it
SaveQuantity_add(items, id, q) ==
    {IF r.id = id THEN [r EXCEPT !.quantity = r.quantity + q] ELSE r :
        r \in items}

\* update_or_create, one row found: defaults={"quantity": quantity}, save()
SaveQuantity(items, id, q) ==
    {IF r.id = id THEN [r EXCEPT !.quantity = q] ELSE r : r \in items}

\* orderitem.delete(): DELETE ... WHERE id = pk
DeleteItem(items, id) == {r \in items : r.id # id}

fields_to_update ==
    {"full_name", "email", "phone", "address", "city", "country", "zipcode"}

\* the address line copied into the city as well
ShippingData_city(shipping) ==
    [f \in fields_to_update |->
        IF f = "city" THEN shipping["address"] ELSE shipping[f]]

\* data[field] = getattr(shipping, field) for the seven fields
ShippingData(shipping) == [f \in fields_to_update |-> shipping[f]]

\* Order.objects.create(user=user, **data)
CreateOrder(ords, id, u, data) ==
    ords \cup {[id |-> id, user |-> u, full_name |-> data["full_name"],
                email |-> data["email"], phone |-> data["phone"],
                address |-> data["address"], city |-> data["city"],
                country |-> data["country"], zipcode |-> data["zipcode"]]}

\* the update run over every row of the user, order IS NULL left out
UpdateOrder_all(items, u, oid) ==
    {IF r.user = u THEN [r EXCEPT !.order = oid] ELSE r : r \in items}

\* orderitems.update(order=order): the queryset is lazy, so this is
\* UPDATE ... SET order = id WHERE user = u AND order IS NULL
UpdateOrder(items, u, oid) ==
    {IF r.user = u /\ r.order = NULL THEN [r EXCEPT !.order = oid] ELSE r :
        r \in items}

\* ------------------------------------------------------------ request state
Idle ==
    [pc |-> "idle", user |-> "-", slug |-> "-", quantity |-> 0, item |-> NULL,
     created |-> FALSE, shipping |-> "-", order |-> NULL]

NoResponse ==
    [op |-> "none", user |-> "-", slug |-> "-", quantity |-> 0,
     shipping |-> "-", status |-> 0, message |-> "-", item |-> NULL,
     order |-> NULL]

\* Response(...) of CartView.post; item is the pk of the serialized row or NULL
ToggleResponse(u, slug, q, status, message, item) ==
    [op |-> "toggle", user |-> u, slug |-> slug, quantity |-> q,
     shipping |-> "-", status |-> status, message |-> message, item |-> item,
     order |-> NULL]

\* Response(...) of CheckoutView.post; order is the pk of the serialized Order
CheckoutResponse(u, sid, status, message, oid) ==
    [op |-> "checkout", user |-> u, slug |-> "-", quantity |-> 0,
     shipping |-> sid, status |-> status, message |-> message, item |-> NULL,
     order |-> oid]

\* status_code and resp_message_substring after update_or_create
StatusCode(created) == IF created THEN 201 ELSE 200
MessageSubstring(created, q) ==
    IF q = 0 THEN "Removed From"
    ELSE IF created THEN "Added To" ELSE "Updated In"

Init ==
    /\ orderitems = {}
    /\ orders = {}
    /\ nextItemId = 1
    /\ nextOrderId = 1
    /\ req = [p \in Procs |-> Idle]
    /\ resp = NoResponse
    /\ started = 0
    /\ rows = {}
    /\ nextRowId = 1
    /\ now = 1
    /\ lastOp = [op |-> "none", ids |-> {}]

\* ------------------------------------------ SpecSeq: one request at a time

\* CartView.post, run to completion
ToggleItem(u, slug, q) ==
    /\ started < MaxCalls
    /\ started' = started + 1
    /\ UNCHANGED <<orders, nextOrderId, req>>
    /\ UNCHANGED sdVars
    /\ IF slug \notin Products
       THEN /\ resp' = ToggleResponse(u, slug, q, 404,
                                      "No Product with that slug", NULL)
            /\ UNCHANGED <<orderitems, nextItemId>>
       ELSE LET found == Lookup(orderitems, u, slug)
                created == found = {}
                id == IF created THEN nextItemId
                      ELSE (CHOOSE r \in found : TRUE).id
                upserted == IF created
                            THEN InsertItem(orderitems, id, u, slug, q)
                            ELSE SaveQuantity(orderitems, id, q)
            IN  IF Cardinality(found) > 1
                THEN /\ resp' = ToggleResponse(u, slug, q, 500,
                                               "MultipleObjectsReturned", NULL)
                     /\ UNCHANGED <<orderitems, nextItemId>>
                ELSE /\ nextItemId' = IF created THEN nextItemId + 1
                                      ELSE nextItemId
                     /\ orderitems' = IF q = 0 THEN DeleteItem(upserted, id)
                                      ELSE upserted
                     /\ resp' = ToggleResponse(u, slug, q, StatusCode(created),
                                    MessageSubstring(created, q),
                                    IF q = 0 THEN NULL ELSE id)

\* CheckoutView.post, run to completion
Checkout(u, sid) ==
    /\ started < MaxCalls
    /\ started' = started + 1
    /\ UNCHANGED <<nextItemId, req>>
    /\ UNCHANGED sdVars
    /\ IF CartItems(orderitems, u) = {}
       THEN /\ resp' = CheckoutResponse(u, sid, 404, "No Items in Cart", NULL)
            /\ UNCHANGED <<orderitems, orders, nextOrderId>>
       ELSE IF sid = NoShippingId
       THEN /\ resp' = CheckoutResponse(u, sid, 500, "UnboundLocalError", NULL)
            /\ UNCHANGED <<orderitems, orders, nextOrderId>>
       ELSE IF sid \notin ShippingIds
       THEN /\ resp' = CheckoutResponse(u, sid, 404,
                                        "No shipping address with that ID", NULL)
            /\ UNCHANGED <<orderitems, orders, nextOrderId>>
       ELSE /\ orders' = CreateOrder(orders, nextOrderId, u,
                                     ShippingData(ShippingAddress(sid)))
            /\ nextOrderId' = nextOrderId + 1
            /\ orderitems' = UpdateOrder(orderitems, u, nextOrderId)
            /\ resp' = CheckoutResponse(u, sid, 200, "Checkout Successful",
                                        nextOrderId)

Slugs == Products \cup {UnknownSlug}
Quantities == 0..MaxQty
ShippingInputs == ShippingIds \cup {UnknownShippingId, NoShippingId}

NextSeq ==
    \/ \E u \in Users, slug \in Slugs, q \in Quantities : ToggleItem(u, slug, q)
    \/ \E u \in Users, sid \in ShippingInputs : Checkout(u, sid)

SpecSeq == Init /\ [][NextSeq]_vars

\* ------------------------------------------- Spec: two concurrent requests
\* No view opens a transaction, so each ORM call commits on its own and the
\* other request runs between any two of them.  Inside update_or_create the
\* row found is locked (select_for_update) until it is saved, so lookup and
\* save of an existing row are one step; a lookup that finds nothing locks
\* nothing, and the INSERT is a later step.

Reply(p, r) ==
    /\ resp' = r
    /\ req' = [req EXCEPT ![p] = Idle]

\* CartView.post up to the lookup of update_or_create (lines 188-202)
ToggleStart(p, u, slug, q) ==
    /\ req[p].pc = "idle"
    /\ started < MaxRequests
    /\ started' = started + 1
    /\ UNCHANGED <<orders, nextOrderId, nextItemId>>
    /\ UNCHANGED sdVars
    /\ IF slug \notin Products
       THEN /\ Reply(p, ToggleResponse(u, slug, q, 404,
                                       "No Product with that slug", NULL))
            /\ UNCHANGED orderitems
       ELSE LET found == Lookup(orderitems, u, slug)
                id == (CHOOSE r \in found : TRUE).id
                mine == [Idle EXCEPT !.user = u, !.slug = slug, !.quantity = q]
            IN  IF Cardinality(found) > 1
                THEN /\ Reply(p, ToggleResponse(u, slug, q, 500,
                                                "MultipleObjectsReturned", NULL))
                     /\ UNCHANGED orderitems
                ELSE IF found = {}
                THEN /\ req' = [req EXCEPT ![p] = [mine EXCEPT !.pc = "insert"]]
                     /\ UNCHANGED <<orderitems, resp>>
                ELSE /\ orderitems' = SaveQuantity(orderitems, id, q)
                     /\ IF q = 0
                        THEN /\ req' = [req EXCEPT ![p] =
                                          [mine EXCEPT !.pc = "delete",
                                                       !.item = id]]
                             /\ UNCHANGED resp
                        ELSE Reply(p, ToggleResponse(u, slug, q,
                                          StatusCode(FALSE),
                                          MessageSubstring(FALSE, q), id))

\* update_or_create found no row: the INSERT (lines 197-202)
ToggleInsert(p) ==
    /\ req[p].pc = "insert"
    /\ UNCHANGED started
    /\ UNCHANGED <<orders, nextOrderId>>
    /\ UNCHANGED sdVars
    /\ orderitems' = InsertItem(orderitems, nextItemId, req[p].user,
                                req[p].slug, req[p].quantity)
    /\ nextItemId' = nextItemId + 1
    /\ IF req[p].quantity = 0
       THEN /\ req' = [req EXCEPT ![p].pc = "delete", ![p].item = nextItemId,
                                  ![p].created = TRUE]
            /\ UNCHANGED resp
       ELSE Reply(p, ToggleResponse(req[p].user, req[p].slug, req[p].quantity,
                         StatusCode(TRUE),
                         MessageSubstring(TRUE, req[p].quantity), nextItemId))

\* orderitem.quantity == 0: orderitem.delete() and the response (lines 208-215)
ToggleDelete(p) ==
    /\ req[p].pc = "delete"
    /\ UNCHANGED started
    /\ UNCHANGED <<orders, nextOrderId, nextItemId>>
    /\ UNCHANGED sdVars
    /\ orderitems' = DeleteItem(orderitems, req[p].item)
    /\ Reply(p, ToggleResponse(req[p].user, req[p].slug, req[p].quantity,
                    StatusCode(req[p].created),
                    MessageSubstring(req[p].created, req[p].quantity), NULL))

\* CheckoutView.post up to the shipping lookup (lines 233-260)
CheckoutStart(p, u, sid) ==
    /\ req[p].pc = "idle"
    /\ started < MaxRequests
    /\ started' = started + 1
    /\ UNCHANGED <<orderitems, orders, nextItemId, nextOrderId>>
    /\ UNCHANGED sdVars
    /\ IF CartItems(orderitems, u) = {}
       THEN Reply(p, CheckoutResponse(u, sid, 404, "No Items in Cart", NULL))
       ELSE IF sid = NoShippingId
       THEN Reply(p, CheckoutResponse(u, sid, 500, "UnboundLocalError", NULL))
       ELSE IF sid \notin ShippingIds
       THEN Reply(p, CheckoutResponse(u, sid, 404,
                         "No shipping address with that ID", NULL))
       ELSE /\ req' = [req EXCEPT ![p] =
                         [Idle EXCEPT !.pc = "create", !.user = u,
                                      !.shipping = sid]]
            /\ UNCHANGED resp

\* order = Order.objects.create(user=user, **data) (line 262)
CheckoutCreate(p) ==
    /\ req[p].pc = "create"
    /\ UNCHANGED started
    /\ UNCHANGED <<orderitems, nextItemId, resp>>
    /\ UNCHANGED sdVars
    /\ orders' = CreateOrder(orders, nextOrderId, req[p].user,
                             ShippingData(ShippingAddress(req[p].shipping)))
    /\ nextOrderId' = nextOrderId + 1
    /\ req' = [req EXCEPT ![p].pc = "update", ![p].order = nextOrderId]

\* orderitems.update(order=order) and the response (lines 263-266)
CheckoutUpdate(p) ==
    /\ req[p].pc = "update"
    /\ UNCHANGED started
    /\ UNCHANGED <<orders, nextItemId, nextOrderId>>
    /\ UNCHANGED sdVars
    /\ orderitems' = UpdateOrder(orderitems, req[p].user, req[p].order)
    /\ Reply(p, CheckoutResponse(req[p].user, req[p].shipping, 200,
                                 "Checkout Successful", req[p].order))

Next ==
    \/ \E p \in Procs, u \in Users, slug \in Slugs, q \in Quantities :
          ToggleStart(p, u, slug, q)
    \/ \E p \in Procs : ToggleInsert(p)
    \/ \E p \in Procs : ToggleDelete(p)
    \/ \E p \in Procs, u \in Users, sid \in ShippingInputs :
          CheckoutStart(p, u, sid)
    \/ \E p \in Procs : CheckoutCreate(p)
    \/ \E p \in Procs : CheckoutUpdate(p)

Spec == Init /\ [][Next]_vars

\* ------------------------------------------------- SpecSD: soft deletion

\* IsDeletedManager.get_queryset: the default manager's rows
DefaultQuery(rs) == {r \in rs : r.is_deleted = FALSE}

\* IsDeletedManager.unfiltered
Unfiltered(rs) == rs

\* Model.objects.filter(id__in=ids) or Model.objects.unfiltered().filter(...)
QuerySet(rs, base, ids) ==
    {r \in (IF base = "objects" THEN DefaultQuery(rs) ELSE Unfiltered(rs)) :
        r.id \in ids}

\* deleted_at set, is_deleted forgotten
MarkDeleted_flagless(rs, qs, t) ==
    {IF r \in qs THEN [r EXCEPT !.deleted_at = t] ELSE r : r \in rs}

\* self.update(is_deleted=True, deleted_at=timezone.now()); the same two
\* fields are what IsDeletedModel.delete saves
MarkDeleted(rs, qs, t) ==
    {IF r \in qs THEN [r EXCEPT !.is_deleted = TRUE, !.deleted_at = t] ELSE r :
        r \in rs}

\* super().delete(): DELETE of the queryset's rows
RemoveRows(rs, qs) == rs \ qs

Ids(qs) == {r.id : r \in qs}
Managers == {"objects", "unfiltered"}
SoftOps == {"Model.delete", "QuerySet.delete"}
HardOps == {"Model.hard_delete", "QuerySet.delete(hard_delete=True)",
            "Manager.hard_delete"}

ShopUnchanged ==
    UNCHANGED <<orderitems, orders, nextItemId, nextOrderId, req, resp, started>>

\* a new row of a model extending IsDeletedModel: is_deleted=False, deleted_at=None
CreateRow ==
    /\ nextRowId <= MaxRows
    /\ rows' = rows \cup {[id |-> nextRowId, is_deleted |-> FALSE,
                           deleted_at |-> NULL]}
    /\ nextRowId' = nextRowId + 1
    /\ lastOp' = [op |-> "create", ids |-> {nextRowId}]
    /\ UNCHANGED now
    /\ ShopUnchanged

\* the clock read by timezone.now() advances
Tick ==
    /\ now < MaxTime
    /\ now' = now + 1
    /\ UNCHANGED <<rows, nextRowId, lastOp>>
    /\ ShopUnchanged

\* IsDeletedModel.delete on an instance fetched through either manager
ModelDelete(base, id) ==
    LET qs == QuerySet(rows, base, {id})
    IN  /\ qs # {}
        /\ rows' = MarkDeleted(rows, qs, now)
        /\ lastOp' = [op |-> "Model.delete", ids |-> Ids(qs)]
        /\ UNCHANGED <<nextRowId, now>>
        /\ ShopUnchanged

\* IsDeletedModel.hard_delete on an instance fetched through either manager
ModelHardDelete(base, id) ==
    LET qs == QuerySet(rows, base, {id})
    IN  /\ qs # {}
        /\ rows' = RemoveRows(rows, qs)
        /\ lastOp' = [op |-> "Model.hard_delete", ids |-> Ids(qs)]
        /\ UNCHANGED <<nextRowId, now>>
        /\ ShopUnchanged

\* IsDeletedQuerySet.delete(hard_delete) on a queryset of either manager
QuerySetDelete(base, ids, hard_delete) ==
    LET qs == QuerySet(rows, base, ids)
    IN  /\ rows' = IF hard_delete THEN RemoveRows(rows, qs)
                   ELSE MarkDeleted(rows, qs, now)
        /\ lastOp' = [op |-> IF hard_delete
                             THEN "QuerySet.delete(hard_delete=True)"
                             ELSE "QuerySet.delete",
                      ids |-> Ids(qs)]
        /\ UNCHANGED <<nextRowId, now>>
        /\ ShopUnchanged

\* IsDeletedManager.hard_delete: self.unfiltered().delete(hard_delete=True)
ManagerHardDelete ==
    LET qs == Unfiltered(rows)
    IN  /\ rows' = RemoveRows(rows, qs)
        /\ lastOp' = [op |-> "Manager.hard_delete", ids |-> Ids(qs)]
        /\ UNCHANGED <<nextRowId, now>>
        /\ ShopUnchanged

RowIds == 1..MaxRows

NextSD ==
    \/ CreateRow
    \/ Tick
    \/ \E base \in Managers, id \in RowIds : ModelDelete(base, id)
    \/ \E base \in Managers, id \in RowIds : ModelHardDelete(base, id)
    \/ \E base \in Managers, ids \in SUBSET RowIds, hard \in BOOLEAN :
          QuerySetDelete(base, ids, hard)
    \/ ManagerHardDelete

SpecSD == Init /\ [][NextSD]_vars

\* ------------------------------------------------------------------ claims
\* What the claims speak of, read off the state without the operators above.
InCart(u) == {r \in orderitems : r.user = u /\ r.order = NULL}
InCartFor(u, p) == {r \in InCart(u) : r.product = p}
ItemsOf(oid) == {r \in orderitems : r.order = oid}
\* this step serves toggleItem(u, slug, q) / checkout(u, sid) and returns resp'
ToggleCall(u, slug, q) ==
    /\ started' = started + 1
    /\ resp'.op = "toggle" /\ resp'.user = u /\ resp'.slug = slug
    /\ resp'.quantity = q
CheckoutCall(u, sid) ==
    /\ started' = started + 1
    /\ resp'.op = "checkout" /\ resp'.user = u /\ resp'.shipping = sid

\* C1 (Spec): while a checkout stands between creating its Order and
\* re-parenting, no other request can see that Order together with cart items
\* of its owner still at order = null.
C1_CheckoutAtomic ==
    \A p \in Procs : \A o \in orders :
        (req[p].pc = "update" /\ req[p].order = o.id) => InCart(o.user) = {}

\* C2 (Spec): under any interleaving of concurrent toggles there is at most
\* one OrderItem per (user, product, order = null).
C2_UniqueCartRow ==
    \A u \in Users, p \in Products : Cardinality(InCartFor(u, p)) <= 1

\* C3 (SpecSeq): a checkout by a user with N >= 1 cart items and a shipping id
\* that resolves creates exactly one Order, owned by the user, carrying the
\* address's seven fields; all N items reference it afterwards, otherwise
\* unchanged.
C3_CheckoutCreatesOrder ==
    [][\A u \in Users, sid \in ShippingIds :
        (CheckoutCall(u, sid) /\ InCart(u) # {}) =>
            /\ orders \subseteq orders'
            /\ \E o \in orders' \ orders :
                /\ orders' \ orders = {o}
                /\ o.user = u
                /\ resp'.order = o.id
                /\ \A f \in fields_to_update : o[f] = ShippingAddress(sid)[f]
                /\ \A r \in InCart(u) :
                      [r EXCEPT !.order = o.id] \in orderitems'
                /\ Cardinality({r \in orderitems' : r.order = o.id})
                      = Cardinality(InCart(u))]_vars

C3_Witness ==
    /\ resp.op = "checkout" /\ resp.message = "Checkout Successful"
    /\ Cardinality(ItemsOf(resp.order)) = 2
    /\ \E o \in orders : o.id = resp.order /\ o.user = resp.user

\* C4 (SpecSeq): a checkout of a non-empty cart whose shipping address cannot
\* be resolved (unknown id, or no id supplied) fails with ShippingNotFound and
\* changes neither the Orders nor any OrderItem.
C4_ShippingNotFound ==
    [][\A u \in Users, sid \in {UnknownShippingId, NoShippingId} :
        (CheckoutCall(u, sid) /\ InCart(u) # {}) =>
            /\ resp'.message = "No shipping address with that ID"
            /\ orders' = orders
            /\ orderitems' = orderitems]_vars

\* C5 (SpecSeq): a checkout by a user with no cart item fails with EmptyCart
\* and leaves the Orders and every OrderItem unchanged.
C5_EmptyCart ==
    [][\A u \in Users, sid \in ShippingInputs :
        (CheckoutCall(u, sid) /\ InCart(u) = {}) =>
            /\ resp'.message = "No Items in Cart"
            /\ resp'.status = 404
            /\ orders' = orders
            /\ orderitems' = orderitems]_vars

C5_Witness ==
    /\ resp.op = "checkout" /\ resp.message = "No Items in Cart"
    /\ InCart(resp.user) = {}
    /\ \E r \in orderitems : r.order = NULL
    /\ resp.shipping \in ShippingIds

\* C6 (Spec): toggleItem(user, product, 0) with no cart entry for the product
\* creates no row at any point: the row such a request would have inserted
\* never exists while the request is in flight.
C6_NoRowEverCreated ==
    \A p \in Procs :
        (req[p].pc = "delete" /\ req[p].created) =>
            ~ \E r \in orderitems : r.id = req[p].item

\* C7 (SpecSeq): toggleItem twice in succession with the same positive
\* quantity: the second call answers Updated and leaves exactly one cart row
\* for (user, product), holding that quantity.
C7_ToggleTwice ==
    [][\A u \in Users, p \in Products, q \in 1..MaxQty :
        (/\ resp.op = "toggle" /\ resp.user = u /\ resp.slug = p
         /\ resp.quantity = q
         /\ ToggleCall(u, p, q)) =>
            /\ resp'.message = "Updated In"
            /\ \E r \in orderitems' :
                /\ {x \in orderitems' :
                       x.user = u /\ x.product = p /\ x.order = NULL} = {r}
                /\ r.quantity = q
                /\ resp'.item = r.id]_vars

C7_Witness ==
    /\ resp.op = "toggle" /\ resp.message = "Updated In" /\ resp.quantity = 2
    /\ \E r \in InCartFor(resp.user, resp.slug) :
          r.quantity = 2 /\ r.id = resp.item
    /\ Cardinality(InCartFor(resp.user, resp.slug)) = 1

\* C8 (SpecSeq): an OrderItem whose order is set is never changed again: no
\* later toggle or checkout resets or re-points its order, changes its
\* quantity or deletes it; so order changes at most once, from null.
C8_OrderedIsFinal ==
    [][\A r \in orderitems : r.order # NULL => r \in orderitems']_vars

C8_Witness ==
    /\ resp.op = "checkout" /\ resp.message = "Checkout Successful"
    /\ \E r \in orderitems :
          /\ r.order # NULL /\ r.order # resp.order /\ r.user = resp.user
          /\ \E r2 \in ItemsOf(resp.order) : r2.product = r.product

\* C9 (SpecSD): after a soft delete the row is not among the default
\* manager's rows, is among unfiltered() and has deleted_at set; it stays out
\* of the default manager's rows from then on, and a row disappears only
\* through a hard delete.
C9_SoftDelete ==
    [][/\ lastOp'.op \in SoftOps =>
            \A id \in lastOp'.ids :
                /\ \E r \in Unfiltered(rows') : r.id = id /\ r.deleted_at # NULL
                /\ ~ \E r \in DefaultQuery(rows') : r.id = id
       /\ \A r \in rows :
            /\ r.is_deleted => ~ \E r2 \in DefaultQuery(rows') : r2.id = r.id
            /\ (~ \E r2 \in Unfiltered(rows') : r2.id = r.id)
                  => lastOp'.op \in HardOps /\ r.id \in lastOp'.ids]_vars

C9_Witness ==
    /\ lastOp.op = "create"
    /\ \E r \in rows : r.is_deleted /\ r.deleted_at # NULL /\ r.deleted_at < now
    /\ \E r \in rows : ~ r.is_deleted /\ r.id \notin lastOp.ids

\* C10 (Spec): every Order whose checkout has finished has at least one
\* OrderItem referencing it.
C10_OrderHasItems ==
    \A o \in orders :
        \/ \E p \in Procs : req[p].pc = "update" /\ req[p].order = o.id
        \/ ItemsOf(o.id) # {}
====
